---- MODULE Spec2Model ----
(***************************************************************************)
(* Model of app.py: the Shannon-entropy calculator, the feature extractor  *)
(* and strength predictor, the random password generator, and the script   *)
(* that loads the two models and guards the call of the predictor.         *)
(*                                                                         *)
(* Characters are Unicode code points; a password is a sequence of them.   *)
(* Python floats are IEEE-754 binary64 values.  Every float the entropy    *)
(* calculator handles is >= 0 in magnitude, so a float is modelled by its  *)
(* magnitude [m, e], meaning m * 2^e with 2^52 <= m < 2^53 (m = <<>> is    *)
(* zero), and every operation rounds to nearest, ties to even, as the      *)
(* hardware does.  Mantissas do not fit TLC's integers, so they are        *)
(* little-endian sequences of 14-bit limbs.                                *)
(***************************************************************************)
EXTENDS Integers, Sequences, FiniteSets, TLC

VARIABLES
  pc,              \* position of the run: which operation acts next
  password,        \* the password under analysis (password_input)
  model_strength,  \* the strength model handed to the predictor, or None
  model_crack_time,\* the crack-time model handed to the predictor, or None
  prediction,      \* outcome of predict_password_security
  strength_seen,   \* the input_data the strength model's predict received
  crack_seen,      \* the input_data the crack-time model's predict received
  entropy_out,     \* what calculate_entropy returned for password
  gen_config,      \* arguments of generate_random_password
  gen_result,      \* its return value
  gen_shown,       \* what the button handler rendered last
  gen_count,       \* how many passwords the handler has rendered
  files,           \* which model files exist on disk
  loaded,          \* the pair load_models returned (cached)
  last_call        \* the arguments of the script's last call of the predictor

vars == <<pc, password, model_strength, model_crack_time, prediction,
          strength_seen, crack_seen, entropy_out, gen_config, gen_result,
          gen_shown, gen_count, files, loaded, last_call>>

\* Python's None
None == [type |-> "NoneType"]

-----------------------------------------------------------------------------
(* Natural numbers of any size: little-endian limbs, no leading zero limb. *)

Base == 2^14

RECURSIVE BitLenSmall(_)
BitLenSmall(n) == IF n = 0 THEN 0 ELSE 1 + BitLenSmall(n \div 2)

LimbBits == BitLenSmall(Base) - 1

RECURSIVE Norm(_)
Norm(a) ==
  IF a = <<>> THEN <<>>
  ELSE IF a[Len(a)] = 0 THEN Norm(SubSeq(a, 1, Len(a) - 1))
  ELSE a

RECURSIVE BigOfNat(_)
BigOfNat(n) == IF n = 0 THEN <<>> ELSE <<n % Base>> \o BigOfNat(n \div Base)

HeadOr0(a) == IF a = <<>> THEN 0 ELSE Head(a)
TailOrE(a) == IF a = <<>> THEN <<>> ELSE Tail(a)

RECURSIVE AddC(_, _, _)
AddC(a, b, c) ==
  IF a = <<>> /\ b = <<>> THEN (IF c = 0 THEN <<>> ELSE <<c>>)
  ELSE LET x == HeadOr0(a) + HeadOr0(b) + c
       IN  <<x % Base>> \o AddC(TailOrE(a), TailOrE(b), x \div Base)

BigAdd(a, b) == AddC(a, b, 0)

RECURSIVE MulC(_, _, _)
MulC(a, d, c) ==
  IF a = <<>> THEN (IF c = 0 THEN <<>> ELSE <<c>>)
  ELSE LET x == Head(a) * d + c
       IN  <<x % Base>> \o MulC(Tail(a), d, x \div Base)

\* a * d for a limb-sized d
BigMulSmall(a, d) == Norm(MulC(a, d, 0))

ShiftLimbs(a, k) == IF a = <<>> THEN <<>> ELSE [i \in 1..k |-> 0] \o a

RECURSIVE BigMul(_, _)
BigMul(a, b) ==
  IF b = <<>> THEN <<>>
  ELSE BigAdd(BigMulSmall(a, Head(b)), ShiftLimbs(BigMul(a, Tail(b)), 1))

\* quotient and remainder of a by a limb-sized d > 0
RECURSIVE DivC(_, _)
DivC(a, d) ==
  IF a = <<>> THEN [q |-> <<>>, r |-> 0]
  ELSE LET hi  == DivC(Tail(a), d)
           cur == hi.r * Base + Head(a)
       IN  [q |-> <<cur \div d>> \o hi.q, r |-> cur % d]

BigDivSmall(a, d) == LET x == DivC(a, d) IN [q |-> Norm(x.q), r |-> x.r]

BigBitLen(a) ==
  IF a = <<>> THEN 0 ELSE LimbBits * (Len(a) - 1) + BitLenSmall(a[Len(a)])

\* a * 2^k
BigShl(a, k) == ShiftLimbs(BigMulSmall(a, 2^(k % LimbBits)), k \div LimbBits)

\* floor(a / 2^k), and whether a bit was shifted out
BigShr(a, k) ==
  LET n    == k \div LimbBits
      low  == SubSeq(a, 1, IF n < Len(a) THEN n ELSE Len(a))
      high == SubSeq(a, n + 1, Len(a))
      d    == BigDivSmall(high, 2^(k % LimbBits))
  IN  [q |-> d.q, sticky |-> d.r # 0 \/ \E i \in 1..Len(low) : low[i] # 0]

IsOdd(a) == a # <<>> /\ Head(a) % 2 = 1

-----------------------------------------------------------------------------
(* binary64 arithmetic on magnitudes.                                      *)

Precision == 52 + 1

FZero == [m |-> <<>>, e |-> 0]

\* the float nearest to M * 2^E (plus, if sticky, a positive amount below
\* the last bit of M); ties go to the even mantissa
FRound(M, E, sticky) ==
  LET n == BigBitLen(M)
  IN  IF M = <<>> THEN FZero
      ELSE IF n <= Precision
        THEN [m |-> BigShl(M, Precision - n), e |-> E - (Precision - n)]
      ELSE LET k    == n - Precision
               s    == BigShr(M, k - 1)
               h    == BigDivSmall(s.q, 2)
               up   == h.r = 1 /\ (s.sticky \/ sticky \/ IsOdd(h.q))
               m    == IF up THEN BigAdd(h.q, <<1>>) ELSE h.q
           IN  IF BigBitLen(m) > Precision
                 THEN [m |-> BigDivSmall(m, 2).q, e |-> E + k + 1]
                 ELSE [m |-> m, e |-> E + k]

\* c / n for integers c >= 0, n > 0 (true division of two ints)
FDiv(c, n) ==
  LET s == Precision + BitLenSmall(n)
      d == BigDivSmall(BigShl(BigOfNat(c), s), n)
  IN  FRound(d.q, 0 - s, d.r # 0)

FMul(a, b) ==
  IF a.m = <<>> \/ b.m = <<>> THEN FZero
  ELSE FRound(BigMul(a.m, b.m), a.e + b.e, FALSE)

FAdd(a, b) ==
  IF a.m = <<>> THEN b
  ELSE IF b.m = <<>> THEN a
  ELSE LET lo == IF a.e < b.e THEN a.e ELSE b.e
       IN  FRound(BigAdd(BigShl(a.m, a.e - lo), BigShl(b.m, b.e - lo)), lo, FALSE)

FOne == [m |-> BigShl(<<1>>, Precision - 1), e |-> 0 - (Precision - 1)]

Log2Table ==
  {
    [x |-> [m |-> <<0, 0, 0, 1024>>, e |-> -56], y |-> [m |-> <<0, 0, 0, 1024>>, e |-> -50]],
    [x |-> [m |-> <<4369, 1092, 4369, 1092>>, e |-> -56], y |-> [m |-> <<550, 11558, 5373, 2000>>, e |-> -51]],
    [x |-> [m |-> <<9362, 2340, 4681, 1170>>, e |-> -56], y |-> [m |-> <<1069, 15696, 5991, 1949>>, e |-> -51]],
    [x |-> [m |-> <<15124, 3780, 5041, 1260>>, e |-> -56], y |-> [m |-> <<8755, 3655, 10242, 1894>>, e |-> -51]],
    [x |-> [m |-> <<5461, 5461, 5461, 1365>>, e |-> -56], y |-> [m |-> <<7860, 1855, 8205, 1835>>, e |-> -51]],
    [x |-> [m |-> <<5958, 4468, 7447, 1489>>, e |-> -56], y |-> [m |-> <<7490, 12313, 3751, 1771>>, e |-> -51]],
    [x |-> [m |-> <<6554, 9830, 6553, 1638>>, e |-> -56], y |-> [m |-> <<9073, 9702, 13552, 1700>>, e |-> -51]],
    [x |-> [m |-> <<1820, 12743, 7281, 1820>>, e |-> -56], y |-> [m |-> <<15721, 3710, 26, 1623>>, e |-> -51]],
    [x |-> [m |-> <<0, 0, 0, 1024>>, e |-> -55], y |-> [m |-> <<0, 0, 0, 1536>>, e |-> -51]],
    [x |-> [m |-> <<4369, 1092, 4369, 1092>>, e |-> -55], y |-> [m |-> <<550, 11558, 5373, 1488>>, e |-> -51]],
    [x |-> [m |-> <<9362, 2340, 4681, 1170>>, e |-> -55], y |-> [m |-> <<1069, 15696, 5991, 1437>>, e |-> -51]],
    [x |-> [m |-> <<15124, 3780, 5041, 1260>>, e |-> -55], y |-> [m |-> <<8755, 3655, 10242, 1382>>, e |-> -51]],
    [x |-> [m |-> <<5461, 5461, 5461, 1365>>, e |-> -55], y |-> [m |-> <<7860, 1855, 8205, 1323>>, e |-> -51]],
    [x |-> [m |-> <<5958, 4468, 7447, 1489>>, e |-> -55], y |-> [m |-> <<7490, 12313, 3751, 1259>>, e |-> -51]],
    [x |-> [m |-> <<0, 0, 0, 1536>>, e |-> -55], y |-> [m |-> <<8524, 14528, 8178, 1236>>, e |-> -51]],
    [x |-> [m |-> <<6554, 9830, 6553, 1638>>, e |-> -55], y |-> [m |-> <<9073, 9702, 13552, 1188>>, e |-> -51]],
    [x |-> [m |-> <<14043, 11702, 7021, 1755>>, e |-> -55], y |-> [m |-> <<9593, 13840, 14170, 1137>>, e |-> -51]],
    [x |-> [m |-> <<1820, 12743, 7281, 1820>>, e |-> -55], y |-> [m |-> <<15721, 3710, 26, 1111>>, e |-> -51]],
    [x |-> [m |-> <<6302, 13863, 7561, 1890>>, e |-> -55], y |-> [m |-> <<895, 1800, 2037, 1083>>, e |-> -51]],
    [x |-> [m |-> <<0, 0, 0, 1024>>, e |-> -54], y |-> [m |-> <<0, 0, 0, 1024>>, e |-> -51]],
    [x |-> [m |-> <<4369, 1092, 4369, 1092>>, e |-> -54], y |-> [m |-> <<1099, 6732, 10747, 1952>>, e |-> -52]],
    [x |-> [m |-> <<4468, 7447, 1489, 1117>>, e |-> -54], y |-> [m |-> <<15644, 4531, 7477, 1919>>, e |-> -52]],
    [x |-> [m |-> <<9362, 2340, 4681, 1170>>, e |-> -54], y |-> [m |-> <<2138, 15008, 11983, 1850>>, e |-> -52]],
    [x |-> [m |-> <<13107, 3276, 13107, 1228>>, e |-> -54], y |-> [m |-> <<2427, 15694, 10694, 1778>>, e |-> -52]],
    [x |-> [m |-> <<15124, 3780, 5041, 1260>>, e |-> -54], y |-> [m |-> <<1126, 7311, 4100, 1741>>, e |-> -52]],
    [x |-> [m |-> <<0, 0, 0, 1280>>, e |-> -54], y |-> [m |-> <<14621, 13362, 5662, 1718>>, e |-> -52]],
    [x |-> [m |-> <<5461, 5461, 5461, 1365>>, e |-> -54], y |-> [m |-> <<15721, 3710, 26, 1623>>, e |-> -52]],
    [x |-> [m |-> <<11703, 7021, 14043, 1462>>, e |-> -54], y |-> [m |-> <<375, 11987, 1262, 1521>>, e |-> -52]],
    [x |-> [m |-> <<5958, 4468, 7447, 1489>>, e |-> -54], y |-> [m |-> <<14980, 8242, 7503, 1494>>, e |-> -52]],
    [x |-> [m |-> <<0, 0, 0, 1536>>, e |-> -54], y |-> [m |-> <<664, 12673, 16357, 1448>>, e |-> -52]],
    [x |-> [m |-> <<2521, 8822, 6301, 1575>>, e |-> -54], y |-> [m |-> <<15747, 4289, 9763, 1411>>, e |-> -52]],
    [x |-> [m |-> <<6554, 9830, 6553, 1638>>, e |-> -54], y |-> [m |-> <<1762, 3021, 10721, 1353>>, e |-> -52]],
    [x |-> [m |-> <<10923, 10922, 10922, 1706>>, e |-> -54], y |-> [m |-> <<13957, 689, 5689, 1293>>, e |-> -52]],
    [x |-> [m |-> <<14043, 11702, 7021, 1755>>, e |-> -54], y |-> [m |-> <<2802, 11297, 11957, 1251>>, e |-> -52]],
    [x |-> [m |-> <<0, 0, 0, 1792>>, e |-> -54], y |-> [m |-> <<14246, 1375, 4400, 1221>>, e |-> -52]],
    [x |-> [m |-> <<1820, 12743, 7281, 1820>>, e |-> -54], y |-> [m |-> <<15057, 7421, 52, 1198>>, e |-> -52]],
    [x |-> [m |-> <<7447, 1489, 13405, 1861>>, e |-> -54], y |-> [m |-> <<13217, 5221, 13166, 1164>>, e |-> -52]],
    [x |-> [m |-> <<6302, 13863, 7561, 1890>>, e |-> -54], y |-> [m |-> <<1789, 3600, 4074, 1142>>, e |-> -52]],
    [x |-> [m |-> <<7646, 14199, 7645, 1911>>, e |-> -54], y |-> [m |-> <<15345, 8107, 15147, 1125>>, e |-> -52]],
    [x |-> [m |-> <<0, 0, 0, 1024>>, e |-> -53], y |-> [m |-> <<0, 0, 0, 1024>>, e |-> -52]],
    [x |-> [m |-> <<4369, 1092, 4369, 1092>>, e |-> -53], y |-> [m |-> <<2199, 13464, 5110, 1857>>, e |-> -53]],
    [x |-> [m |-> <<5041, 1260, 12603, 1102>>, e |-> -53], y |-> [m |-> <<14361, 989, 617, 1829>>, e |-> -53]],
    [x |-> [m |-> <<4468, 7447, 1489, 1117>>, e |-> -53], y |-> [m |-> <<14904, 9063, 14954, 1790>>, e |-> -53]],
    [x |-> [m |-> <<7282, 1820, 12743, 1137>>, e |-> -53], y |-> [m |-> <<10204, 8801, 11430, 1736>>, e |-> -53]],
    [x |-> [m |-> <<0, 0, 0, 1152>>, e |-> -53], y |-> [m |-> <<2654, 1540, 16279, 1699>>, e |-> -53]],
    [x |-> [m |-> <<9362, 2340, 4681, 1170>>, e |-> -53], y |-> [m |-> <<4276, 13632, 7583, 1653>>, e |-> -53]],
    [x |-> [m |-> <<10923, 10922, 10922, 1194>>, e |-> -53], y |-> [m |-> <<10781, 10173, 8852, 1592>>, e |-> -53]],
    [x |-> [m |-> <<13107, 3276, 13107, 1228>>, e |-> -53], y |-> [m |-> <<4853, 15004, 5005, 1509>>, e |-> -53]],
    [x |-> [m |-> <<15124, 3780, 5041, 1260>>, e |-> -53], y |-> [m |-> <<2251, 14622, 8200, 1434>>, e |-> -53]],
    [x |-> [m |-> <<0, 0, 0, 1280>>, e |-> -53], y |-> [m |-> <<12859, 10341, 11325, 1388>>, e |-> -53]],
    [x |-> [m |-> <<13405, 5957, 4468, 1303>>, e |-> -53], y |-> [m |-> <<9300, 2853, 7423, 1335>>, e |-> -53]],
    [x |-> [m |-> <<2341, 4681, 9362, 1316>>, e |-> -53], y |-> [m |-> <<6929, 15172, 7478, 1305>>, e |-> -53]],
    [x |-> [m |-> <<5461, 5461, 5461, 1365>>, e |-> -53], y |-> [m |-> <<15058, 7421, 52, 1198>>, e |-> -53]],
    [x |-> [m |-> <<0, 0, 0, 1408>>, e |-> -53], y |-> [m |-> <<2809, 16282, 1376, 1107>>, e |-> -53]],
    [x |-> [m |-> <<8822, 6301, 13863, 1417>>, e |-> -53], y |-> [m |-> <<4906, 16162, 8095, 1086>>, e |-> -53]],
    [x |-> [m |-> <<9830, 6553, 9830, 1433>>, e |-> -53], y |-> [m |-> <<15635, 8793, 13858, 1053>>, e |-> -53]],
    [x |-> [m |-> <<11703, 7021, 14043, 1462>>, e |-> -53], y |-> [m |-> <<1499, 15180, 5050, 1988>>, e |-> -54]],
    [x |-> [m |-> <<5958, 4468, 7447, 1489>>, e |-> -53], y |-> [m |-> <<10766, 203, 13630, 1881>>, e |-> -54]],
    [x |-> [m |-> <<14199, 7645, 14199, 1501>>, e |-> -53], y |-> [m |-> <<10016, 10340, 12975, 1832>>, e |-> -54]],
    [x |-> [m |-> <<0, 0, 0, 1536>>, e |-> -53], y |-> [m |-> <<2654, 1540, 16279, 1699>>, e |-> -54]],
    [x |-> [m |-> <<2521, 8822, 6301, 1575>>, e |-> -53], y |-> [m |-> <<13835, 775, 6285, 1550>>, e |-> -54]],
    [x |-> [m |-> <<3641, 9102, 14563, 1592>>, e |-> -53], y |-> [m |-> <<2525, 2423, 1426, 1485>>, e |-> -54]],
    [x |-> [m |-> <<4681, 9362, 2340, 1609>>, e |-> -53], y |-> [m |-> <<14168, 10676, 1537, 1425>>, e |-> -54]],
    [x |-> [m |-> <<6554, 9830, 6553, 1638>>, e |-> -53], y |-> [m |-> <<7050, 12084, 10116, 1318>>, e |-> -54]],
    [x |-> [m |-> <<0, 0, 0, 1664>>, e |-> -53], y |-> [m |-> <<11880, 3523, 16366, 1226>>, e |-> -54]],
    [x |-> [m |-> <<14895, 2978, 10426, 1675>>, e |-> -53], y |-> [m |-> <<16074, 3283, 13420, 1185>>, e |-> -54]],
    [x |-> [m |-> <<10923, 10922, 10922, 1706>>, e |-> -53], y |-> [m |-> <<6678, 2759, 6372, 1077>>, e |-> -54]],
    [x |-> [m |-> <<12603, 11342, 15123, 1732>>, e |-> -53], y |-> [m |-> <<3858, 8929, 5543, 1974>>, e |-> -55]],
    [x |-> [m |-> <<14043, 11702, 7021, 1755>>, e |-> -53], y |-> [m |-> <<6029, 8457, 13741, 1821>>, e |-> -55]],
    [x |-> [m |-> <<15292, 12014, 15291, 1774>>, e |-> -53], y |-> [m |-> <<16169, 11751, 4023, 1691>>, e |-> -55]],
    [x |-> [m |-> <<0, 0, 0, 1792>>, e |-> -53], y |-> [m |-> <<15666, 11006, 2432, 1578>>, e |-> -55]],
    [x |-> [m |-> <<1820, 12743, 7281, 1820>>, e |-> -53], y |-> [m |-> <<5771, 10223, 419, 1392>>, e |-> -55]],
    [x |-> [m |-> <<3277, 13107, 3276, 1843>>, e |-> -53], y |-> [m |-> <<8333, 13945, 3429, 1245>>, e |-> -55]],
    [x |-> [m |-> <<7447, 1489, 13405, 1861>>, e |-> -53], y |-> [m |-> <<7434, 9006, 7026, 1126>>, e |-> -55]],
    [x |-> [m |-> <<5461, 5461, 5461, 1877>>, e |-> -53], y |-> [m |-> <<5928, 12896, 5717, 1028>>, e |-> -55]],
    [x |-> [m |-> <<6302, 13863, 7561, 1890>>, e |-> -53], y |-> [m |-> <<12241, 8449, 16035, 1891>>, e |-> -56]],
    [x |-> [m |-> <<7022, 14043, 11702, 1901>>, e |-> -53], y |-> [m |-> <<16185, 8464, 11447, 1751>>, e |-> -56]],
    [x |-> [m |-> <<7646, 14199, 7645, 1911>>, e |-> -53], y |-> [m |-> <<16151, 15038, 12983, 1630>>, e |-> -56]],
    [x |-> [m |-> <<0, 0, 0, 1920>>, e |-> -53], y |-> [m |-> <<15180, 6974, 8265, 1525>>, e |-> -56]],
    [x |-> [m |-> <<0, 0, 0, 1024>>, e |-> -51], y |-> [m |-> <<0, 0, 0, 1024>>, e |-> -52]],
    [x |-> [m |-> <<0, 0, 0, 1536>>, e |-> -51], y |-> [m |-> <<15720, 3710, 26, 1623>>, e |-> -52]],
    [x |-> [m |-> <<0, 0, 0, 1024>>, e |-> -50], y |-> [m |-> <<0, 0, 0, 1024>>, e |-> -51]],
    [x |-> [m |-> <<0, 0, 0, 1280>>, e |-> -50], y |-> [m |-> <<9073, 9702, 13552, 1188>>, e |-> -51]],
    [x |-> [m |-> <<0, 0, 0, 1536>>, e |-> -50], y |-> [m |-> <<7860, 1855, 8205, 1323>>, e |-> -51]],
    [x |-> [m |-> <<0, 0, 0, 1792>>, e |-> -50], y |-> [m |-> <<1069, 15696, 5991, 1437>>, e |-> -51]],
    [x |-> [m |-> <<0, 0, 0, 1024>>, e |-> -49], y |-> [m |-> <<0, 0, 0, 1536>>, e |-> -51]],
    [x |-> [m |-> <<0, 0, 0, 1152>>, e |-> -49], y |-> [m |-> <<15720, 3710, 26, 1623>>, e |-> -51]],
    [x |-> [m |-> <<0, 0, 0, 1280>>, e |-> -49], y |-> [m |-> <<9073, 9702, 13552, 1700>>, e |-> -51]],
    [x |-> [m |-> <<0, 0, 0, 1408>>, e |-> -49], y |-> [m |-> <<7490, 12313, 3751, 1771>>, e |-> -51]],
    [x |-> [m |-> <<0, 0, 0, 1536>>, e |-> -49], y |-> [m |-> <<7860, 1855, 8205, 1835>>, e |-> -51]],
    [x |-> [m |-> <<0, 0, 0, 1664>>, e |-> -49], y |-> [m |-> <<8755, 3655, 10242, 1894>>, e |-> -51]],
    [x |-> [m |-> <<0, 0, 0, 1792>>, e |-> -49], y |-> [m |-> <<1069, 15696, 5991, 1949>>, e |-> -51]],
    [x |-> [m |-> <<0, 0, 0, 1920>>, e |-> -49], y |-> [m |-> <<550, 11558, 5373, 2000>>, e |-> -51]],
    [x |-> [m |-> <<0, 0, 0, 1024>>, e |-> -48], y |-> [m |-> <<0, 0, 0, 1024>>, e |-> -50]]
  }

\* |math.log2(x)| for the float x: the table holds the binary64 results for
\* every argument the model can produce (c/n and n, 1 <= c < n <= 16);
\* log2(1.0) is 0.0.  log2(x) is negative for x < 1.
Log2Magnitude(x) ==
  IF x = FOne THEN FZero
  ELSE (CHOOSE r \in Log2Table : r.x = x).y

-----------------------------------------------------------------------------
(* calculate_entropy                                                       *)

\* CharCounts with a fault: a character is merged only with the key added
\* last, so a character that comes back after another gets a second key
RECURSIVE CharCountsRunsMutant(_)
CharCountsRunsMutant(s) ==
  IF s = <<>> THEN <<>>
  ELSE LET before == CharCountsRunsMutant(SubSeq(s, 1, Len(s) - 1))
           char   == s[Len(s)]
           n      == Len(before)
       IN  IF n > 0 /\ before[n].char = char
             THEN [before EXCEPT ![n] = [char |-> char, count |-> before[n].count + 1]]
             ELSE Append(before, [char |-> char, count |-> 1])

\* the dict `alphabet` after the first loop: its keys in insertion order
\* (the order of first appearance) with their counts
RECURSIVE CharCounts(_)
CharCounts(s) ==
  IF s = <<>> THEN <<>>
  ELSE LET before == CharCounts(SubSeq(s, 1, Len(s) - 1))
           char   == s[Len(s)]
       IN  IF \E i \in 1..Len(before) : before[i].char = char
             THEN [i \in 1..Len(before) |->
                     IF before[i].char = char
                       THEN [char |-> char, count |-> before[i].count + 1]
                       ELSE before[i]]
             ELSE Append(before, [char |-> char, count |-> 1])

\* EntropyStep with a fault: probability = 1 / len(password)
EntropyStepUniformMutant(entropy, count, length) ==
  LET probability == FDiv(1, length)
  IN  FAdd(entropy, FMul(probability, Log2Magnitude(probability)))

\* one pass of the second loop: entropy -= probability * log2(probability).
\* The product is <= 0, so subtracting it adds its magnitude.
EntropyStep(entropy, count, length) ==
  LET probability == FDiv(count, length)
  IN  FAdd(entropy, FMul(probability, Log2Magnitude(probability)))

RECURSIVE EntropyLoop(_, _, _)
EntropyLoop(counts, k, length) ==
  IF k = 0 THEN FZero
  ELSE EntropyStep(EntropyLoop(counts, k - 1, length), counts[k].count, length)

calculate_entropy(s) ==
  IF s = <<>> THEN FZero
  ELSE LET alphabet == CharCounts(s)
       IN  EntropyLoop(alphabet, Len(alphabet), Len(s))

-----------------------------------------------------------------------------
(* Characters.  str.isupper, str.islower, str.isdigit and str.isalnum of   *)
(* one character, for printable ASCII and six characters beyond it:        *)
(* 178 SUPERSCRIPT TWO, 189 VULGAR FRACTION ONE HALF, 201 and 233 E with   *)
(* acute (capital and small), 453 the title-case letter Dz with caron,     *)
(* 20013 a CJK ideograph.                                                  *)

isupper(c) == c \in 65..90 \/ c = 201
islower(c) == c \in 97..122 \/ c = 233
isdigit(c) == c \in 48..57 \/ c = 178
isalnum(c) == isupper(c) \/ islower(c) \/ isdigit(c) \/ c \in {189, 453, 20013}


-----------------------------------------------------------------------------
(* predict_password_security                                               *)

\* A strength score is k / ScoreDen for an integer k; PerCent is the factor
\* of the percentage.
PerCent == 100
ScoreDen == 10 * PerCent

\* score < tenths / 10
Below(k, tenths) == 10 * k < tenths * ScoreDen

\* input_data_of with a fault: symbol_count counts what is not a letter
input_data_digit_symbols_mutant(s) ==
  [password_length    |-> Len(s),
   uppercase_count    |-> Cardinality({i \in 1..Len(s) : isupper(s[i])}),
   lowercase_count    |-> Cardinality({i \in 1..Len(s) : islower(s[i])}),
   digit_count        |-> Cardinality({i \in 1..Len(s) : isdigit(s[i])}),
   symbol_count       |-> Cardinality({i \in 1..Len(s) :
                            ~(isupper(s[i]) \/ islower(s[i]) \/ s[i] \in {453, 20013})}),
   entropy_calculated |-> calculate_entropy(s),
   entropy            |-> calculate_entropy(s)]

\* input_data_of with a fault: the column entropy_calculated is missing
input_data_six_columns_mutant(s) ==
  [password_length    |-> Len(s),
   uppercase_count    |-> Cardinality({i \in 1..Len(s) : isupper(s[i])}),
   lowercase_count    |-> Cardinality({i \in 1..Len(s) : islower(s[i])}),
   digit_count        |-> Cardinality({i \in 1..Len(s) : isdigit(s[i])}),
   symbol_count       |-> Cardinality({i \in 1..Len(s) : ~isalnum(s[i])}),
   entropy            |-> calculate_entropy(s)]

\* the DataFrame the models receive: its columns, one row; each count is
\* sum(1 for c in password if ...)
input_data_of(s) ==
  [password_length    |-> Len(s),
   uppercase_count    |-> Cardinality({i \in 1..Len(s) : isupper(s[i])}),
   lowercase_count    |-> Cardinality({i \in 1..Len(s) : islower(s[i])}),
   digit_count        |-> Cardinality({i \in 1..Len(s) : isdigit(s[i])}),
   symbol_count       |-> Cardinality({i \in 1..Len(s) : ~isalnum(s[i])}),
   entropy_calculated |-> calculate_entropy(s),
   entropy            |-> calculate_entropy(s)]

\* strength_assessment_of with a fault: the thresholds compared with <=
strength_assessment_inclusive_mutant(k) ==
  IF 10 * k <= 2 * ScoreDen THEN "Very Weak"
  ELSE IF 10 * k <= 4 * ScoreDen THEN "Weak"
  ELSE IF 10 * k <= 6 * ScoreDen THEN "Medium"
  ELSE IF 10 * k <= 8 * ScoreDen THEN "Strong"
  ELSE "Very Strong"

strength_assessment_of(k) ==
  IF Below(k, 2) THEN "Very Weak"
  ELSE IF Below(k, 4) THEN "Weak"
  ELSE IF Below(k, 6) THEN "Medium"
  ELSE IF Below(k, 8) THEN "Strong"
  ELSE "Very Strong"

strength_color_of(k) ==
  IF Below(k, 2) THEN "red"
  ELSE IF Below(k, 4) THEN "orange"
  ELSE IF Below(k, 6) THEN "yellow"
  ELSE IF Below(k, 8) THEN "green"
  ELSE "darkgreen"

\* str(n) for a natural number n, as code points
RECURSIVE DecimalDigits(_)
DecimalDigits(n) ==
  IF n < 10 THEN <<48 + n>> ELSE Append(DecimalDigits(n \div 10), 48 + (n % 10))

\* f"{x:.2f}%" for x = h / 100, as code points: sign, integer part, point,
\* two decimals, per cent sign
Format2f(h) ==
  LET a == IF h < 0 THEN 0 - h ELSE h
  IN  (IF h < 0 THEN <<45>> ELSE <<>>) \o DecimalDigits(a \div 100) \o <<46>>
        \o <<48 + ((a % 100) \div 10), 48 + (a % 10)>> \o <<37>>

\* predicted_strength_percentage with a fault: the score clamped to [0, 1]
percentage_clamped_mutant(k) ==
  LET c == IF k < 0 THEN 0 ELSE IF k > ScoreDen THEN ScoreDen ELSE k
  IN  (c * PerCent * 100) \div ScoreDen

\* predicted_strength * 100, in hundredths
predicted_strength_percentage(k) == (k * PerCent * 100) \div ScoreDen

\* A model is None or an object whose predict returns its `out` for any
\* input.  The outcome of the call: the dict returned, or the exception
\* raised by `None.predict`; with it, what each model's predict received.
predict_password_security(s, m_strength, m_crack_time) ==
  LET input_data == input_data_of(s)
  IN  IF m_strength = None
        THEN [outcome |-> "raised", exception |-> "AttributeError",
              strength_seen |-> None, crack_seen |-> None]
      ELSE IF m_crack_time = None
        THEN [outcome |-> "raised", exception |-> "AttributeError",
              strength_seen |-> input_data, crack_seen |-> None]
      ELSE LET predicted_strength == m_strength.out
           IN  [outcome |-> "returned",
                strength_seen |-> input_data, crack_seen |-> input_data,
                value |->
                  [strength            |-> predicted_strength,
                   strength_percentage |->
                     Format2f(predicted_strength_percentage(predicted_strength)),
                   strength_assessment |-> strength_assessment_of(predicted_strength),
                   strength_color      |-> strength_color_of(predicted_strength),
                   crack_time_category |-> m_crack_time.out]]

-----------------------------------------------------------------------------
(* generate_random_password                                                *)

ascii_uppercase == [i \in 1..26 |-> 64 + i]
ascii_lowercase == [i \in 1..26 |-> 96 + i]
digits == [i \in 1..10 |-> 47 + i]
punctuation ==
  <<33, 34, 35, 36, 37, 38, 39, 40, 41, 42, 43, 44, 45, 46, 47, 58, 59, 60,
    61, 62, 63, 64, 91, 92, 93, 94, 95, 96, 123, 124, 125, 126>>

\* "Please select at least one character type."
SelectMessage ==
  <<80, 108, 101, 97, 115, 101, 32, 115, 101, 108, 101, 99, 116, 32, 97, 116,
    32, 108, 101, 97, 115, 116, 32, 111, 110, 101, 32, 99, 104, 97, 114, 97,
    99, 116, 101, 114, 32, 116, 121, 112, 101, 46>>

\* characters_of with a fault: use_lowercase adds the upper-case letters
characters_copied_mutant(use_uppercase, use_lowercase, use_digits, use_symbols) ==
  (IF use_uppercase THEN ascii_uppercase ELSE <<>>)
    \o (IF use_lowercase THEN ascii_uppercase ELSE <<>>)
    \o (IF use_digits THEN digits ELSE <<>>)
    \o (IF use_symbols THEN punctuation ELSE <<>>)

characters_of(use_uppercase, use_lowercase, use_digits, use_symbols) ==
  (IF use_uppercase THEN ascii_uppercase ELSE <<>>)
    \o (IF use_lowercase THEN ascii_lowercase ELSE <<>>)
    \o (IF use_digits THEN digits ELSE <<>>)
    \o (IF use_symbols THEN punctuation ELSE <<>>)

\* the str objects a call can return: secrets.choice draws any position of
\* `characters`, once per character of the result
generate_random_password(length, use_uppercase, use_lowercase, use_digits, use_symbols) ==
  LET characters == characters_of(use_uppercase, use_lowercase, use_digits, use_symbols)
  IN  IF characters = <<>>
        THEN {[type |-> "str", value |-> SelectMessage]}
        ELSE {[type |-> "str", value |-> [j \in 1..length |-> characters[pick[j]]]] :
                pick \in [1..length -> 1..Len(characters)]}

-----------------------------------------------------------------------------
(* Bounds of the model.                                                    *)

MaxEntLen == 6      \* longest password over EntropyChars given to calculate_entropy
MaxDistinct == 12   \* longest password of pairwise distinct characters given to it
MaxLen == 2         \* longest password given to the predictor
MaxOver == 50       \* how far a score may lie outside [0, 1], in 1/ScoreDen
MaxGenLen == 1      \* longest password asked of the generator

\* st.number_input(..., min_value=1, max_value=5, ...)
num_passwords_min == 1
num_passwords_max == 5

-----------------------------------------------------------------------------
(* The state before any operation has run.                                 *)

NoEntropy == entropy_out = None
NoPrediction ==
  /\ model_strength = None /\ model_crack_time = None
  /\ prediction = None /\ strength_seen = None /\ crack_seen = None
NoGeneration ==
  gen_config = None /\ gen_result = None /\ gen_shown = None /\ gen_count = 0
NoScript == files = {} /\ loaded = None /\ last_call = None

-----------------------------------------------------------------------------
(* calculate_entropy, applied to the password as it is typed, reordered    *)
(* and cleared.  The passwords: every word over EntropyChars up to         *)
(* MaxEntLen, and the first k lower-case letters for k up to MaxDistinct.  *)

EntropyChars == {ascii_lowercase[1], ascii_lowercase[2], ascii_lowercase[3]}

IsDistinctPrefix(s) == s = SubSeq(ascii_lowercase, 1, Len(s))

Typeable(s, c) ==
  \/ /\ Len(s) < MaxEntLen
     /\ c \in EntropyChars
     /\ \A i \in 1..Len(s) : s[i] \in EntropyChars
  \/ /\ Len(s) < MaxDistinct
     /\ IsDistinctPrefix(s)
     /\ c = ascii_lowercase[Len(s) + 1]

InitEntropy ==
  /\ pc = "entropy"
  /\ password = <<>>
  /\ NoEntropy /\ NoPrediction /\ NoGeneration /\ NoScript

EntropyUnchanged ==
  UNCHANGED <<pc, model_strength, model_crack_time, prediction, strength_seen,
              crack_seen, gen_config, gen_result, gen_shown, gen_count, files,
              loaded, last_call>>

\* one more character, then the entropy of the whole
EntropyOfTyped ==
  /\ pc = "entropy"
  /\ \E c \in 97..(96 + MaxDistinct) :
       /\ Typeable(password, c)
       /\ password' = Append(password, c)
  /\ entropy_out' = calculate_entropy(password')
  /\ EntropyUnchanged

\* two neighbouring characters exchanged, then the entropy of the whole
EntropyOfReordered ==
  /\ pc = "entropy"
  /\ \A i \in 1..Len(password) : password[i] \in EntropyChars
  /\ \E i \in 1..(Len(password) - 1) :
       /\ password[i] # password[i + 1]
       /\ password' = [password EXCEPT ![i] = password[i + 1],
                                       ![i + 1] = password[i]]
  /\ entropy_out' = calculate_entropy(password')
  /\ EntropyUnchanged

\* the field emptied, then the entropy of the empty password
EntropyOfCleared ==
  /\ pc = "entropy"
  /\ password' = <<>>
  /\ entropy_out' = calculate_entropy(password')
  /\ EntropyUnchanged

NextEntropy == EntropyOfTyped \/ EntropyOfReordered \/ EntropyOfCleared
SpecEntropy == InitEntropy /\ [][NextEntropy]_vars

-----------------------------------------------------------------------------
(* predict_password_security, called directly with every password up to   *)
(* MaxLen and a coarse range of scores, and with two passwords and every   *)
(* score; either model may be None.                                        *)

\* 'A', 'a', '1', '!', ' ', a CJK ideograph, the fraction one half
PasswordChars == {65, 97, 49, 33, 32, 20013, 189}

Passwords == UNION {[1..n -> PasswordChars] : n \in 0..MaxLen}

\* "", "Aa1!"
SamplePasswords == {<<>>, <<65, 97, 49, 33>>}

Scores == (0 - MaxOver)..(ScoreDen + MaxOver)
CoarseScores == {k \in Scores : (10 * k) % ScoreDen = 0}

CrackCategories == {"seconds", "centuries"}
CrackModels == {None} \cup {[out |-> c] : c \in CrackCategories}
StrengthModels(S) == {None} \cup {[out |-> k] : k \in S}

PredictInputs ==
  (Passwords \X StrengthModels(CoarseScores))
    \cup (SamplePasswords \X StrengthModels(Scores))

InitPredict ==
  /\ pc = "predict"
  /\ \E input \in PredictInputs :
       password = input[1] /\ model_strength = input[2]
  /\ model_crack_time \in CrackModels
  /\ prediction = None /\ strength_seen = None /\ crack_seen = None
  /\ NoEntropy /\ NoGeneration /\ NoScript

\* the outcome of a call without what the models saw
Shown(r) ==
  IF r.outcome = "returned"
    THEN [outcome |-> "returned", value |-> r.value]
    ELSE [outcome |-> "raised", exception |-> r.exception]

Predict ==
  /\ pc = "predict"
  /\ \E r \in {predict_password_security(password, model_strength, model_crack_time)} :
       /\ prediction' = Shown(r)
       /\ strength_seen' = r.strength_seen
       /\ crack_seen' = r.crack_seen
  /\ pc' = "predicted"
  /\ UNCHANGED <<password, model_strength, model_crack_time, entropy_out,
                 gen_config, gen_result, gen_shown, gen_count, files, loaded,
                 last_call>>

NextPredict == Predict
SpecPredict == InitPredict /\ [][NextPredict]_vars

-----------------------------------------------------------------------------
(* The "Generate Password(s)" button.  The slider offers lengths 8..32;    *)
(* the function takes any length and is called here with 0..MaxGenLen.     *)
(* The passes of the handler's loop draw independently of each other; of   *)
(* what it renders the state keeps the last st.success (gen_shown), with   *)
(* the password it shows (gen_result), and the number rendered (gen_count).*)

GenConfigs ==
  [password_length : 0..MaxGenLen,
   num_passwords : num_passwords_min..num_passwords_max,
   use_uppercase : BOOLEAN, use_lowercase : BOOLEAN,
   use_digits : BOOLEAN, use_symbols : BOOLEAN]

InitGen ==
  /\ pc = "button"
  /\ gen_config \in GenConfigs
  /\ gen_result = None /\ gen_shown = None /\ gen_count = 0
  /\ password = <<>>
  /\ NoEntropy /\ NoPrediction /\ NoScript

\* st.success(f"Generated Password {i+1}: {random_password}")
ShowGenerated(i, random_password) ==
  [call |-> "st.success", label |-> "Generated Password", number |-> i + 1,
   text |-> random_password.value]

\* for i in range(num_passwords): generate one, render it
GenerateButton ==
  /\ pc = "button"
  /\ \E random_password \in generate_random_password(gen_config.password_length,
          gen_config.use_uppercase, gen_config.use_lowercase,
          gen_config.use_digits, gen_config.use_symbols) :
       /\ gen_result' = random_password
       /\ gen_shown' = ShowGenerated(gen_config.num_passwords - 1, random_password)
  /\ gen_count' = gen_config.num_passwords
  /\ pc' = "generated"
  /\ UNCHANGED <<password, entropy_out, model_strength, model_crack_time,
                 prediction, strength_seen, crack_seen, gen_config, files,
                 loaded, last_call>>

NextGen == GenerateButton
SpecGen == InitGen /\ [][NextGen]_vars

-----------------------------------------------------------------------------
(* The script: load_models (cached for the process), then the password     *)
(* checker section.  Every interaction runs the script again.              *)

STRENGTH_MODEL_PATH == "model_strength_rf.joblib"
CRACK_TIME_MODEL_PATH == "model_crack_time_clf.joblib"

\* what a download does: the file is written, requests raises a
\* RequestException, or open/write raises an OSError (not caught)
DownloadOutcomes == {"written", "RequestException", "OSError"}

\* the models joblib.load can give the script
LoadedStrengthModels == {[out |-> k] : k \in CoarseScores}
LoadedCrackModels == {[out |-> c] : c \in CrackCategories}

\* the tuple load_models returns, and its other way out
Pair(s, c) == [strength_model |-> s, crack_time_model |-> c]
Raised == [type |-> "raised"]

\* what the body of load_models can do, given the files on disk: the pair it
\* returns, or Raised when the exception escapes, and the files afterwards
load_models(disk) ==
  LET first == IF STRENGTH_MODEL_PATH \in disk THEN {"exists"} ELSE DownloadOutcomes
      second == IF CRACK_TIME_MODEL_PATH \in disk THEN {"exists"} ELSE DownloadOutcomes
      failed(d) == [returned |-> Pair(None, None), files |-> d]
      escaped(d, path) ==
        {[returned |-> Raised, files |-> e] : e \in {d, d \cup {path}}}
      joblib(d) ==
        {failed(d)} \cup
        {[returned |-> Pair(s, c), files |-> d] :
           s \in LoadedStrengthModels, c \in LoadedCrackModels}
      after_second(d) ==
        UNION {CASE o = "RequestException" -> {failed(d)}
                 [] o = "OSError" -> escaped(d, CRACK_TIME_MODEL_PATH)
                 [] o = "written" -> joblib(d \cup {CRACK_TIME_MODEL_PATH})
                 [] o = "exists" -> joblib(d) : o \in second}
  IN  UNION {CASE o = "RequestException" -> {failed(disk)}
               [] o = "OSError" -> escaped(disk, STRENGTH_MODEL_PATH)
               [] o = "written" -> after_second(disk \cup {STRENGTH_MODEL_PATH})
               [] o = "exists" -> after_second(disk) : o \in first}

\* checker_guard with a fault: the password is not tested
checker_guard_models_only_mutant(password_input, model_strength_rf, model_crack_time_clf) ==
  model_strength_rf # None /\ model_crack_time_clf # None

\* `if password_input and model_strength_rf and model_crack_time_clf`
checker_guard(password_input, model_strength_rf, model_crack_time_clf) ==
  password_input # <<>> /\ model_strength_rf # None /\ model_crack_time_clf # None

Init ==
  /\ pc = "start"
  /\ password = <<>>
  /\ files \in SUBSET {STRENGTH_MODEL_PATH, CRACK_TIME_MODEL_PATH}
  /\ loaded = None /\ last_call = None
  /\ NoEntropy /\ NoPrediction /\ NoGeneration

ScriptUnchanged ==
  UNCHANGED <<entropy_out, gen_config, gen_result, gen_shown, gen_count>>

\* model_strength_rf, model_crack_time_clf = load_models()
LoadModels ==
  /\ pc = "start"
  /\ \E r \in (IF loaded # None THEN {[returned |-> loaded, files |-> files]}
               ELSE load_models(files)) :
       /\ files' = r.files
       /\ IF r.returned = Raised
            THEN /\ pc' = "stopped"
                 /\ UNCHANGED <<loaded, model_strength, model_crack_time>>
            ELSE /\ pc' = "checker"
                 /\ loaded' = r.returned
                 /\ model_strength' = r.returned.strength_model
                 /\ model_crack_time' = r.returned.crack_time_model
  /\ UNCHANGED <<password, prediction, strength_seen, crack_seen, last_call>>
  /\ ScriptUnchanged

\* the section under "Check Password Strength"
CheckerSection ==
  /\ pc = "checker"
  /\ IF checker_guard(password, model_strength, model_crack_time)
       THEN \E r \in {predict_password_security(password, model_strength,
                                                 model_crack_time)} :
              /\ last_call' = [password |-> password,
                               model_strength |-> model_strength,
                               model_crack_time |-> model_crack_time]
              /\ prediction' = Shown(r)
              /\ strength_seen' = r.strength_seen
              /\ crack_seen' = r.crack_seen
              /\ pc' = IF r.outcome = "returned" THEN "rendered" ELSE "stopped"
       ELSE /\ pc' = "rendered"
            /\ UNCHANGED <<last_call, prediction, strength_seen, crack_seen>>
  /\ UNCHANGED <<password, model_strength, model_crack_time, files, loaded>>
  /\ ScriptUnchanged

\* the user edits the password field: the script runs again from the top
Rerun ==
  /\ pc \in {"rendered", "stopped"}
  /\ password' \in Passwords
  /\ pc' = "start"
  /\ model_strength' = None /\ model_crack_time' = None
  /\ prediction' = None /\ strength_seen' = None /\ crack_seen' = None
  /\ last_call' = None
  /\ UNCHANGED <<files, loaded>>
  /\ ScriptUnchanged

\* the process starts afresh: the cache is empty, the files remain
Restart ==
  /\ pc \in {"rendered", "stopped"}
  /\ loaded # None
  /\ loaded' = None
  /\ password' = <<>>
  /\ pc' = "start"
  /\ model_strength' = None /\ model_crack_time' = None
  /\ prediction' = None /\ strength_seen' = None /\ crack_seen' = None
  /\ last_call' = None
  /\ UNCHANGED files
  /\ ScriptUnchanged

Next == LoadModels \/ CheckerSection \/ Rerun \/ Restart
Spec == Init /\ [][Next]_vars

-----------------------------------------------------------------------------
(* Properties.                                                             *)

Returned == pc = "predicted" /\ prediction.outcome = "returned"

Labels == {"Very Weak", "Weak", "Medium", "Strong", "Very Strong"}

\* C1: the label follows the raw score by left-inclusive thresholds:
\* score < 0.2 Very Weak, 0.2 <= score < 0.4 Weak, 0.4 <= score < 0.6 Medium,
\* 0.6 <= score < 0.8 Strong, score >= 0.8 Very Strong; every score gets one
\* of the five labels.
C1_LeftInclusiveThresholds ==
  Returned =>
    LET k == model_strength.out
        label == prediction.value.strength_assessment
    IN  /\ label \in Labels
        /\ 5 * k < ScoreDen => label = "Very Weak"
        /\ (ScoreDen <= 5 * k /\ 5 * k < 2 * ScoreDen) => label = "Weak"
        /\ (2 * ScoreDen <= 5 * k /\ 5 * k < 3 * ScoreDen) => label = "Medium"
        /\ (3 * ScoreDen <= 5 * k /\ 5 * k < 4 * ScoreDen) => label = "Strong"
        /\ 4 * ScoreDen <= 5 * k => label = "Very Strong"

\* a stub that returns exactly 0.2 was called and the label is Weak
C1_Witness ==
  /\ Returned
  /\ 5 * model_strength.out = ScoreDen
  /\ prediction.value.strength_assessment = "Weak"

\* characters of the model that are alphanumeric (str.isalnum) without being
\* an upper-case letter, a lower-case letter or a digit
Unclassified == {189, 453, 20013}

CountSum(d) ==
  d.uppercase_count + d.lowercase_count + d.digit_count + d.symbol_count

C5_ModelUnavailableReturned ==
  (pc = "predicted" /\ (model_strength = None \/ model_crack_time = None)) =>
    prediction.outcome = "returned"

\* what the percentage string says, in hundredths of a per cent: the string
\* is [-]digits.dd%
RECURSIVE DigitsValue(_)
DigitsValue(ds) ==
  IF ds = <<>> THEN 0
  ELSE 10 * DigitsValue(SubSeq(ds, 1, Len(ds) - 1)) + (ds[Len(ds)] - 48)

PercentHundredths(str) ==
  LET neg == str[1] = 45
      n   == Len(str)
      int == SubSeq(str, IF neg THEN 2 ELSE 1, n - 4)
      abs == 100 * DigitsValue(int) + DigitsValue(SubSeq(str, n - 2, n - 1))
  IN  IF neg THEN 0 - abs ELSE abs

WellFormedPercent(str) ==
  LET n == Len(str)
      first == IF str[1] = 45 THEN 2 ELSE 1
  IN  /\ n >= first + 4
      /\ str[n] = 37 /\ str[n - 3] = 46
      /\ \A i \in (first..(n - 4)) \cup {n - 2, n - 1} : str[i] \in 48..57

\* C8: the score is neither clamped nor validated: the strength returned is
\* the model's output, the percentage is the score times 100 (below 0 or
\* above 100 for a score outside [0, 1]), a score above 1 is Very Strong and
\* a score below 0 Very Weak.
C8_NoClamping ==
  Returned =>
    LET k == model_strength.out
        v == prediction.value
    IN  /\ v.strength = k
        /\ WellFormedPercent(v.strength_percentage)
        /\ ScoreDen * PercentHundredths(v.strength_percentage) = 100 * 100 * k
        /\ k > ScoreDen => /\ v.strength_assessment = "Very Strong"
                           /\ PercentHundredths(v.strength_percentage) > 100 * 100
        /\ k < 0 => /\ v.strength_assessment = "Very Weak"
                    /\ PercentHundredths(v.strength_percentage) < 0

\* a score above 1 was returned as it is, with a percentage above 100
C8_Witness ==
  /\ Returned
  /\ model_strength.out > ScoreDen
  /\ prediction.value.strength = model_strength.out
  /\ PercentHundredths(prediction.value.strength_percentage) > 100 * 100

\* C9, as claimed: the vector the models receive has exactly six fields, the
\* length, uppercase_count, lowercase_count, digit_count, symbol_count and
\* entropy, and both models receive the same vector.  (The length may go by
\* any name.)
C9_SixFields ==
  Returned =>
    /\ Cardinality(DOMAIN strength_seen) = 6
    /\ {"uppercase_count", "lowercase_count", "digit_count", "symbol_count",
        "entropy"} \subseteq DOMAIN strength_seen
    /\ crack_seen = strength_seen

\* C9, amended: the vector has exactly the seven columns password_length,
\* uppercase_count, lowercase_count, digit_count, symbol_count,
\* entropy_calculated and entropy; the last two both hold the entropy of the
\* same password; both models receive the same vector.
C9_SevenColumns ==
  (pc = "predicted" /\ strength_seen # None) =>
    /\ DOMAIN strength_seen =
         {"password_length", "uppercase_count", "lowercase_count",
          "digit_count", "symbol_count", "entropy_calculated", "entropy"}
    /\ strength_seen.entropy = calculate_entropy(password)
    /\ strength_seen.entropy_calculated = strength_seen.entropy
    /\ Returned => crack_seen = strength_seen

\* both models were called, on a password with two different characters
C9_Witness ==
  /\ Returned
  /\ crack_seen = strength_seen
  /\ Len(password) = 2 /\ password[1] # password[2]
  /\ strength_seen.entropy # FZero

NoClass(c) ==
  ~c.use_uppercase /\ ~c.use_lowercase /\ ~c.use_digits /\ ~c.use_symbols

\* C3, as claimed: with all four classes disabled the generator returns a
\* failure indicator, a different kind of value from a generated password,
\* never a string.
C3_EmptyAlphabetNotAString ==
  (gen_result # None /\ NoClass(gen_config)) => gen_result.type # "str"

UpperCaseSet == 65..90
LowerCaseSet == 97..122
DigitSet == 48..57
PunctuationSet == (33..47) \cup (58..64) \cup (91..96) \cup (123..126)

Enabled(c) ==
  (IF c.use_uppercase THEN UpperCaseSet ELSE {})
    \cup (IF c.use_lowercase THEN LowerCaseSet ELSE {})
    \cup (IF c.use_digits THEN DigitSet ELSE {})
    \cup (IF c.use_symbols THEN PunctuationSet ELSE {})

\* C4: with a class enabled the generator returns a string of exactly
\* `length` characters, each from the union of the enabled classes; with all
\* four enabled the alphabet has 94 characters (26 + 26 + 10 + 32).
C4_LengthAndAlphabet ==
  /\ (gen_result # None /\ ~NoClass(gen_config)) =>
       /\ gen_result.type = "str"
       /\ Len(gen_result.value) = gen_config.password_length
       /\ \A i \in 1..Len(gen_result.value) :
            gen_result.value[i] \in Enabled(gen_config)
  /\ LET all == characters_of(TRUE, TRUE, TRUE, TRUE)
     IN  /\ Len(all) = 94
         /\ {all[i] : i \in 1..Len(all)} =
              UpperCaseSet \cup LowerCaseSet \cup DigitSet \cup PunctuationSet
         /\ Cardinality(UpperCaseSet \cup LowerCaseSet \cup DigitSet \cup PunctuationSet) = 94

\* lower-case letters alone were asked for, and one was generated
C4_Witness ==
  /\ gen_result # None
  /\ gen_config.use_lowercase /\ ~gen_config.use_uppercase
  /\ ~gen_config.use_digits /\ ~gen_config.use_symbols
  /\ gen_config.password_length >= 1
  /\ Len(gen_result.value) = gen_config.password_length
  /\ gen_result.value[1] \in LowerCaseSet

AllSame(s) == \A i \in 1..Len(s) : s[i] = s[1]

\* C6: the entropy of the empty password is exactly 0, and so is the
\* entropy of n >= 1 identical characters.
C6_ZeroEntropy ==
  (entropy_out # None /\ AllSame(password)) => entropy_out = FZero

\* the entropy of three identical characters was computed
C6_Witness ==
  /\ Len(password) = 3 /\ AllSame(password)
  /\ entropy_out = FZero

\* a < b
RECURSIVE BigLess(_, _)
BigLess(a, b) ==
  IF Len(a) # Len(b) THEN Len(a) < Len(b)
  ELSE IF a = <<>> THEN FALSE
  ELSE IF a[Len(a)] # b[Len(b)] THEN a[Len(a)] < b[Len(b)]
  ELSE BigLess(SubSeq(a, 1, Len(a) - 1), SubSeq(b, 1, Len(b) - 1))

\* |a - b| <= 2^(-t), for t at most the negated exponents of a and b
FClose(a, b, t) ==
  LET lo == IF a.e < b.e THEN a.e ELSE b.e
      A  == BigShl(a.m, a.e - lo)
      B  == BigShl(b.m, b.e - lo)
      T  == BigShl(<<1>>, 0 - t - lo)
  IN  ~BigLess(BigAdd(A, T), B) /\ ~BigLess(BigAdd(B, T), A)

\* math.log2(n) for an integer n >= 1
Log2OfNat(n) == Log2Magnitude(FRound(BigOfNat(n), 0, FALSE))

Distinct(s) == \A i, j \in 1..Len(s) : i # j => s[i] # s[j]

Occurrences(s, c) == Cardinality({i \in 1..Len(s) : s[i] = c})

IsPermutation(s, t) ==
  /\ Len(s) = Len(t)
  /\ \A i \in 1..Len(s) : Occurrences(s, s[i]) = Occurrences(t, s[i])

BothOrNeither(s, c) == (s = None) <=> (c = None)

\* C10: load_models gives two models or (None, None), never one model, and
\* the script calls the predictor only with a non-empty password and two
\* loaded models; no call of the predictor raises.
C10_GuardedPredict ==
  /\ BothOrNeither(model_strength, model_crack_time)
  /\ loaded # None => BothOrNeither(loaded.strength_model, loaded.crack_time_model)
  /\ last_call # None =>
       /\ last_call.password # <<>>
       /\ last_call.model_strength # None
       /\ last_call.model_crack_time # None
  /\ prediction # None => prediction.outcome = "returned"
  /\ (pc = "rendered" /\ prediction # None) => last_call # None

\* the second download failed after the first had written its file: the
\* script went on with no model and, with a password entered, did not call
\* the predictor
C10_Witness ==
  /\ pc = "rendered"
  /\ files = {STRENGTH_MODEL_PATH}
  /\ loaded = Pair(None, None)
  /\ password # <<>>
  /\ last_call = None /\ prediction = None

====
